---- MODULE Spec2Model ----
(***************************************************************************)
(* Model of the education ETL pipeline of building_module1.py:             *)
(* paginated extraction (extract_layer), normalisation (transform), the    *)
(* merge and the output loop (load_outputs) driven by main.                *)
(***************************************************************************)
EXTENDS Integers, Sequences, FiniteSets, TLC

\* ------------------------------------------------------------------ bounds
\* Page size used by the model.  The program uses PAGE_SIZE = 2000; the
\* pagination logic only depends on the ratio of the layer size to it.
PAGE_SIZE == 2
\* Largest number of records the service holds for a layer when a single
\* extract_layer call is explored.
MaxRecords == 5
\* Largest number of records the service holds for a layer in a full run.
MaxRunRecords == 2
\* Largest number of rows of a frame handed to transform on its own.
MaxRows == 2

\* ------------------------------------------------------------------ config
EDUCATION_LAYERS ==
  << [name |-> "schools", layer_id |-> 76],
     [name |-> "colleges_universities", layer_id |-> 74],
     [name |-> "technical_trade_schools", layer_id |-> 75] >>

CRS_OUT == "EPSG:4326"

\* Coordinate references a response or a frame can carry: none at all, the
\* target system, or another system.
NoCRS == "None"
CRS_VALUES == {NoCRS, CRS_OUT, "EPSG:3857"}

\* ------------------------------------------------------------ geometries
NullGeom == [kind |-> "null", x |-> 0]
EmptyGeom == [kind |-> "empty", x |-> 0]
PointGeom(x) == [kind |-> "point", x |-> x]

\* The geometry of a kind that feature number n of a layer has.
GeomOf(kind, n) ==
  CASE kind = "null" -> NullGeom
    [] kind = "empty" -> EmptyGeom
    [] OTHER -> PointGeom(n)
\* The kinds of geometry a feature can have.
GEOM_KINDS == {"null", "empty", "point"}
\* Full runs explore a missing geometry or a point only.
RUN_GEOM_KINDS == {"null", "point"}

\* --------------------------------------------------------------- columns
\* A column name is a sequence of characters.
KeyName == <<"N", "a", "m", "e">>
KeyZip == <<"Z", "i", "p", " ", "C", "d">>
KeyDash == <<"a", "-", "b">>
KeySpace == <<"a", " ", "b">>
KeyFacType == <<"F", "a", "c", "i", "l", "i", "t", "y", " ", "T", "y", "p", "e">>
facility_category == <<"f", "a", "c", "i", "l", "i", "t", "y", "_",
                       "c", "a", "t", "e", "g", "o", "r", "y">>
facility_type == <<"f", "a", "c", "i", "l", "i", "t", "y", "_", "t", "y", "p", "e">>

\* Field lists the service can expose for a layer.
FIELD_SETS == { <<KeyName>>, <<KeyName, KeyZip>> }
\* Field list of each configured layer in a full run (similar, not equal).
RUN_FIELDS == << <<KeyName>>, <<KeyName, KeyZip>>, <<KeyDash, KeyName>> >>
\* Field lists explored for transform on its own (with colliding names).
TRANSFORM_FIELD_SETS ==
  { <<>>, <<KeyName>>, <<KeyDash, KeySpace>>, <<KeyZip, KeyFacType>>,
    <<facility_category, KeyName>> }

\* ------------------------------------------------------------- sequences
Min(a, b) == IF a < b THEN a ELSE b

RECURSIVE SelectRows(_, _)
\* s restricted to the elements whose index is in keep, order kept.
SelectRows(s, keep) ==
  IF s = <<>> THEN <<>>
  ELSE LET n == Len(s)
           front == SelectRows(SubSeq(s, 1, n - 1), keep)
       IN IF n \in keep THEN Append(front, s[n]) ELSE front

Contains(s, e) == \E i \in 1..Len(s) : s[i] = e

\* --------------------------------------------------------------- service
\* What the service holds for a layer: its features in service order and
\* the fields every feature carries.
Feature(layer_id, n, g, fields) ==
  [id |-> <<layer_id, n>>, geometry |-> g,
   properties |-> [j \in 1..Len(fields) |-> "v"]]

LayerStores(layer_id, maxN, kinds, fieldSets) ==
  UNION { { [features |-> [n \in 1..k |-> Feature(layer_id, n, GeomOf(ks[n], n), fields)],
             fields |-> fields] :
            ks \in [1..k -> kinds], fields \in fieldSets } :
          k \in 0..maxN }

\* The page the service holds at an offset.
TruePage(st, off, size) ==
  SubSeq(st.features, off + 1, Min(off + size, Len(st.features)))

\* ---------------------------------------------------------------- frames
NoFrame == [rows |-> <<>>, columns |-> <<>>, crs |-> "unset"]

\* GeoDataFrame.from_features: one row per feature in order, the columns
\* are the features' property keys, the crs is the one passed in.
from_features(feats, fields, crs) ==
  [rows |-> [i \in 1..Len(feats) |->
               [id |-> feats[i].id, geometry |-> feats[i].geometry,
                values |-> feats[i].properties]],
   columns |-> fields,
   crs |-> crs]


\* pandas Index.str.lower on one character.
LowerChar(c) ==
  CASE c = "N" -> "n" [] c = "Z" -> "z" [] c = "C" -> "c"
    [] c = "F" -> "f" [] c = "T" -> "t" [] OTHER -> c

\* .str.lower().str.replace(" ", "_").str.replace("-", "_") on one name.
NormalizeKey(key) ==
  [i \in 1..Len(key) |->
     LET c == LowerChar(key[i])
     IN IF c = " " \/ c = "-" THEN "_" ELSE c]

\* gdf[gdf.geometry.notnull()]: notnull is False for a missing geometry
\* only; an empty geometry object is not missing.
notnull(g) == g.kind # "null"

FilterNotNull(gdf) ==
  [gdf EXCEPT !.rows =
     SelectRows(gdf.rows, {i \in 1..Len(gdf.rows) : notnull(gdf.rows[i].geometry)})]

\* Coordinates of a point moved from one reference system to another; the
\* change of coordinates is a shift here.  Missing and empty geometries
\* have no coordinates to change.
Reproject(g, from, to) ==
  IF g.kind = "point" /\ from # to THEN PointGeom(g.x + 10) ELSE g

\* GeoDataFrame.to_crs
to_crs(gdf, crs) ==
  [gdf EXCEPT !.rows = [i \in 1..Len(gdf.rows) |->
                          [gdf.rows[i] EXCEPT !.geometry = Reproject(@, gdf.crs, crs)]],
              !.crs = crs]

\* GeoDataFrame.set_crs on a frame without a crs: the tag only.
set_crs(gdf, crs) == [gdf EXCEPT !.crs = crs]

\* NormalizeCRS with a hard-coded source system: the frame is taken to be
\* in EPSG:3857 and always reprojected.
NormalizeCRS_AssumeSource(gdf) == to_crs(set_crs(gdf, "EPSG:3857"), CRS_OUT)

NormalizeCRS(gdf) ==
  IF gdf.crs = NoCRS THEN set_crs(gdf, "EPSG:4326") ELSE to_crs(gdf, CRS_OUT)

StandardizeColumns(gdf) ==
  [gdf EXCEPT !.columns = [j \in 1..Len(gdf.columns) |-> NormalizeKey(gdf.columns[j])]]

\* gdf[key] = value: every column of that name gets the value in every row;
\* a new column is appended when there is none.
SetColumn(gdf, key, value) ==
  IF Contains(gdf.columns, key)
  THEN [gdf EXCEPT !.rows = [i \in 1..Len(gdf.rows) |->
          [gdf.rows[i] EXCEPT !.values =
             [j \in 1..Len(gdf.columns) |->
                IF gdf.columns[j] = key THEN value ELSE gdf.rows[i].values[j]]]]]
  ELSE [gdf EXCEPT !.columns = Append(@, key),
                   !.rows = [i \in 1..Len(gdf.rows) |->
                               [gdf.rows[i] EXCEPT !.values = Append(@, value)]]]

transform(gdf, layer_name) ==
  SetColumn(SetColumn(StandardizeColumns(NormalizeCRS(FilterNotNull(gdf))),
                      facility_category, "education"),
            facility_type, layer_name)

\* ----------------------------------------------------------------- merge
RECURSIVE UnionColumns(_)
\* Column names of the frames in order of first appearance.
UnionColumns(frames) ==
  IF frames = <<>> THEN <<>>
  ELSE LET n == Len(frames)
           front == UnionColumns(SubSeq(frames, 1, n - 1))
           cols == frames[n].columns
       IN front \o SelectRows(cols, {j \in 1..Len(cols) : ~Contains(front, cols[j])})

\* The value a row of a frame has in a column of the union (NaN if the
\* frame has no such column).
ValueAt(frame, row, col) ==
  IF Contains(frame.columns, col)
  THEN row.values[CHOOSE j \in 1..Len(frame.columns) : frame.columns[j] = col]
  ELSE "NaN"

RECURSIVE ConcatRows(_, _)
ConcatRows(frames, cols) ==
  IF frames = <<>> THEN <<>>
  ELSE LET n == Len(frames)
           f == frames[n]
       IN ConcatRows(SubSeq(frames, 1, n - 1), cols) \o
          [i \in 1..Len(f.rows) |->
             [f.rows[i] EXCEPT !.values =
                [j \in 1..Len(cols) |-> ValueAt(f, f.rows[i], cols[j])]]]

\* concat followed by dropna(): rows with a missing value are dropped.
concat_dropna(frames) ==
  LET cols == UnionColumns(frames)
      rows == ConcatRows(frames, cols)
  IN [rows |-> SelectRows(rows, {i \in 1..Len(rows) : ~Contains(rows[i].values, "NaN")}),
      columns |-> cols, crs |-> CRS_OUT]

\* gpd.GeoDataFrame(pd.concat(frames, ignore_index=True), crs=CRS_OUT)
concat(frames) ==
  LET cols == UnionColumns(frames)
  IN [rows |-> ConcatRows(frames, cols), columns |-> cols, crs |-> CRS_OUT]

\* ------------------------------------------------------------------ dicts
\* A dict is a sequence of [name, gdf] items in insertion order.
DictValues(d) == [i \in 1..Len(d) |-> d[i].gdf]
DictNames(d) == {d[i].name : i \in 1..Len(d)}

\* d[name] = gdf
DictSet(d, name, gdf) ==
  IF name \in DictNames(d)
  THEN [i \in 1..Len(d) |-> IF d[i].name = name THEN [name |-> name, gdf |-> gdf] ELSE d[i]]
  ELSE Append(d, [name |-> name, gdf |-> gdf])

\* A directory or container: a function from the names present to content.
NoFiles == [n \in {} |-> NoFrame]
PutFile(fs, name, gdf) ==
  [n \in DOMAIN fs \cup {name} |-> IF n = name THEN gdf ELSE fs[n]]


\* ================================================================= state
VARIABLES
  pc,          \* stage of main: Idle, Extracting, Transforming, Merging,
               \* Writing, Done, Failed
  error,       \* the exception that ended the run, or "none"
  li,          \* index in EDUCATION_LAYERS of the layer main is working on
  store,       \* what the service holds for that layer
  features,    \* extract_layer: accumulator
  offset,      \* extract_layer: resultOffset of the next request
  data,        \* extract_layer: body of the last successful response
  requests,    \* offsets requested for the layer so far, in order
  responses,   \* sizes of the batches received for the layer, in order
  faithful,    \* every response so far was the page the service holds
  pageCrs,     \* crs reported with the last page that had records
  gdf_raw,     \* main: result of extract_layer
  all_layers,  \* main: dict name -> frame
  wi,          \* load_outputs: position in gdfs.items()
  wstep,       \* load_outputs: next write for that item
  geojson,     \* OUTPUT_DIR: standalone files written, by collection name
  gpkg,        \* education.gpkg: layers written, by layer name
  tin,         \* transform on its own: argument frame and layer name
  tout,        \* transform on its own: result of the first application
  tout2        \* transform on its own: result of the second application

vars == <<pc, error, li, store, features, offset, data, requests, responses,
          faithful, pageCrs, gdf_raw, all_layers, wi, wstep, geojson, gpkg,
          tin, tout, tout2>>

extractVars == <<features, offset, data, requests, responses, faithful, pageCrs>>
loadVars == <<wi, wstep, geojson, gpkg>>
transformVars == <<tin, tout, tout2>>

NumLayers == Len(EDUCATION_LAYERS)
NoStore == [features |-> <<>>, fields |-> <<>>]
NoData == [crs |-> "unset"]
NoInput == [gdf |-> NoFrame, layer_name |-> "none"]

\* ----------------------------------------------------------- extract_layer
\* Entry of extract_layer(layer_id) for layer i: empty accumulator, offset 0.
\* The content of the layer at the service is fixed from here on.
EnterExtract(i, maxN, kinds, fieldSets) ==
  /\ li' = i
  /\ store' \in LayerStores(EDUCATION_LAYERS[i].layer_id, maxN, kinds, fieldSets)
  /\ features' = <<>>
  /\ offset' = 0
  /\ data' = NoData
  /\ requests' = <<>>
  /\ responses' = <<>>
  /\ faithful' = TRUE
  /\ pageCrs' = "unset"

\* FetchFails with the error swallowed and the page requested again.
FetchFails_Retry ==
  /\ pc = "Extracting"
  /\ Len(responses) < 3
  /\ requests' = Append(requests, offset)
  /\ responses' = Append(responses, -1)
  /\ UNCHANGED <<pc, error, li, store, features, offset, data, faithful, pageCrs,
                 gdf_raw, all_layers>>
  /\ UNCHANGED loadVars
  /\ UNCHANGED transformVars

\* requests.get(...) followed by raise_for_status() on a non-success
\* response: the exception leaves extract_layer and main.
FetchFails ==
  /\ pc = "Extracting"
  /\ requests' = Append(requests, offset)
  /\ responses' = Append(responses, -1)
  /\ pc' = "Failed"
  /\ error' = "TransportError"
  /\ UNCHANGED <<li, store, features, offset, data, faithful, pageCrs,
                 gdf_raw, all_layers>>
  /\ UNCHANGED loadVars
  /\ UNCHANGED transformVars

\* FetchBatch with the offset advanced by the size of the batch received.
FetchBatch_AdvanceByBatch ==
  /\ pc = "Extracting"
  /\ LET batch == TruePage(store, offset, PAGE_SIZE)
     IN /\ batch # <<>>
        /\ \E crs \in CRS_VALUES :
             /\ data' = [crs |-> crs]
             /\ pageCrs' = crs
        /\ requests' = Append(requests, offset)
        /\ responses' = Append(responses, Len(batch))
        /\ features' = features \o batch
        /\ offset' = offset + Len(batch)
  /\ UNCHANGED <<pc, error, li, store, faithful, gdf_raw, all_layers>>
  /\ UNCHANGED loadVars
  /\ UNCHANGED transformVars

\* FetchBatch with the loop also left after a page shorter than PAGE_SIZE.
FetchBatch_StopOnShortPage ==
  /\ pc = "Extracting"
  /\ LET batch == TruePage(store, offset, PAGE_SIZE)
     IN /\ batch # <<>>
        /\ requests' = Append(requests, offset)
        /\ responses' = Append(responses, Len(batch))
        /\ features' = features \o batch
        /\ offset' = offset + PAGE_SIZE
        /\ \E crs \in CRS_VALUES :
             /\ data' = [crs |-> crs]
             /\ pageCrs' = crs
             /\ IF Len(batch) < PAGE_SIZE
                THEN /\ pc' = "Transforming"
                     /\ gdf_raw' = from_features(features \o batch, store.fields, crs)
                ELSE UNCHANGED <<pc, gdf_raw>>
  /\ UNCHANGED <<error, li, store, faithful, all_layers>>
  /\ UNCHANGED loadVars
  /\ UNCHANGED transformVars

\* A response with records: extend the accumulator, advance the offset and
\* go round the loop.
FetchBatch ==
  /\ pc = "Extracting"
  /\ LET batch == TruePage(store, offset, PAGE_SIZE)
     IN /\ batch # <<>>
        /\ \E crs \in CRS_VALUES :
             /\ data' = [crs |-> crs]
             /\ pageCrs' = crs
        /\ requests' = Append(requests, offset)
        /\ responses' = Append(responses, Len(batch))
        /\ features' = features \o batch
        /\ offset' = offset + PAGE_SIZE
  /\ UNCHANGED <<pc, error, li, store, faithful, gdf_raw, all_layers>>
  /\ UNCHANGED loadVars
  /\ UNCHANGED transformVars

\* FetchEmpty without the check of the accumulator: an empty frame is
\* returned for a layer without data.
FetchEmpty_NoRaise ==
  /\ pc = "Extracting"
  /\ requests' = Append(requests, offset)
  /\ responses' = Append(responses, 0)
  /\ faithful' = (faithful /\ TruePage(store, offset, PAGE_SIZE) = <<>>)
  /\ \E crs \in CRS_VALUES :
       /\ data' = [crs |-> crs]
       /\ pc' = "Transforming"
       /\ gdf_raw' = from_features(features, store.fields, crs)
       /\ UNCHANGED error
  /\ UNCHANGED <<li, store, features, offset, pageCrs, all_layers>>
  /\ UNCHANGED loadVars
  /\ UNCHANGED transformVars

\* A response without records (the layer is exhausted at this offset, or the
\* service answers with an empty page although it holds records there):
\* break, then raise on an empty accumulator or build the frame with the
\* crs of this response.
FetchEmpty ==
  /\ pc = "Extracting"
  /\ requests' = Append(requests, offset)
  /\ responses' = Append(responses, 0)
  /\ faithful' = (faithful /\ TruePage(store, offset, PAGE_SIZE) = <<>>)
  /\ \E crs \in CRS_VALUES :
       /\ data' = [crs |-> crs]
       /\ IF features = <<>>
          THEN /\ pc' = "Failed"
               /\ error' = "EmptyLayerError"
               /\ UNCHANGED gdf_raw
          ELSE /\ pc' = "Transforming"
               /\ gdf_raw' = from_features(features, store.fields, crs)
               /\ UNCHANGED error
  /\ UNCHANGED <<li, store, features, offset, pageCrs, all_layers>>
  /\ UNCHANGED loadVars
  /\ UNCHANGED transformVars

\* ------------------------------------------------------------------ main
\* main() is called: the loop over EDUCATION_LAYERS.items() starts with the
\* first layer.
MainStart ==
  /\ pc = "Idle"
  /\ pc' = "Extracting"
  /\ EnterExtract(1, MaxRunRecords, RUN_GEOM_KINDS, {RUN_FIELDS[1]})
  /\ UNCHANGED <<error, gdf_raw, all_layers>>
  /\ UNCHANGED loadVars
  /\ UNCHANGED transformVars

\* TransformLayer with the code after the loop reached after every layer.
TransformLayer_LeaveLoop ==
  /\ pc = "Transforming"
  /\ all_layers' = DictSet(all_layers, EDUCATION_LAYERS[li].name,
                           transform(gdf_raw, EDUCATION_LAYERS[li].name))
  /\ pc' = "Merging"
  /\ UNCHANGED <<li, store>>
  /\ UNCHANGED extractVars
  /\ UNCHANGED <<error, gdf_raw>>
  /\ UNCHANGED loadVars
  /\ UNCHANGED transformVars

\* gdf_clean = transform(gdf_raw, name); all_layers[name] = gdf_clean; then
\* the next iteration of the loop, or the code after it.
TransformLayer ==
  /\ pc = "Transforming"
  /\ all_layers' = DictSet(all_layers, EDUCATION_LAYERS[li].name,
                           transform(gdf_raw, EDUCATION_LAYERS[li].name))
  /\ IF li < NumLayers
     THEN /\ pc' = "Extracting"
          /\ EnterExtract(li + 1, MaxRunRecords, RUN_GEOM_KINDS, {RUN_FIELDS[li + 1]})
     ELSE /\ pc' = "Merging"
          /\ UNCHANGED <<li, store>>
          /\ UNCHANGED extractVars
  /\ UNCHANGED <<error, gdf_raw>>
  /\ UNCHANGED loadVars
  /\ UNCHANGED transformVars

\* combined = GeoDataFrame(pd.concat(all_layers.values(), ...));
\* all_layers["education_all"] = combined; load_outputs is entered.
MergeLayers ==
  /\ pc = "Merging"
  /\ all_layers' = DictSet(all_layers, "education_all", concat(DictValues(all_layers)))
  /\ pc' = "Writing"
  /\ wi' = 1
  /\ wstep' = "geojson"
  /\ UNCHANGED <<error, li, store, gdf_raw, geojson, gpkg>>
  /\ UNCHANGED extractVars
  /\ UNCHANGED transformVars

\* ----------------------------------------------------------- load_outputs
\* gdf.to_file(geojson_path, driver="GeoJSON"): the file named after the
\* collection is created or replaced.
WriteGeoJSON ==
  /\ pc = "Writing"
  /\ wstep = "geojson"
  /\ geojson' = PutFile(geojson, all_layers[wi].name, all_layers[wi].gdf)
  /\ wstep' = "gpkg"
  /\ UNCHANGED <<pc, error, li, store, gdf_raw, all_layers, wi, gpkg>>
  /\ UNCHANGED extractVars
  /\ UNCHANGED transformVars

\* WriteGPKG with the container file replaced by a file of one layer.
WriteGPKG_ReplaceFile ==
  /\ pc = "Writing"
  /\ wstep = "gpkg"
  /\ gpkg' = PutFile(NoFiles, all_layers[wi].name, all_layers[wi].gdf)
  /\ wstep' = "geojson"
  /\ IF wi < Len(all_layers)
     THEN wi' = wi + 1 /\ UNCHANGED pc
     ELSE pc' = "Done" /\ UNCHANGED wi
  /\ UNCHANGED <<error, li, store, gdf_raw, all_layers, geojson>>
  /\ UNCHANGED extractVars
  /\ UNCHANGED transformVars

\* gdf.to_file(gpkg_path, layer=name, driver="GPKG"): the layer of that name
\* is created or replaced in the container, the other layers stay.  After
\* the last item load_outputs returns and main ends.
WriteGPKG ==
  /\ pc = "Writing"
  /\ wstep = "gpkg"
  /\ gpkg' = PutFile(gpkg, all_layers[wi].name, all_layers[wi].gdf)
  /\ wstep' = "geojson"
  /\ IF wi < Len(all_layers)
     THEN wi' = wi + 1 /\ UNCHANGED pc
     ELSE pc' = "Done" /\ UNCHANGED wi
  /\ UNCHANGED <<error, li, store, gdf_raw, all_layers, geojson>>
  /\ UNCHANGED extractVars
  /\ UNCHANGED transformVars

\* to_file raises (disk full, permission denied): the exception leaves
\* load_outputs and main; what was written before stays.
WriteFails ==
  /\ pc = "Writing"
  /\ pc' = "Failed"
  /\ error' = "WriteError"
  /\ UNCHANGED <<li, store, gdf_raw, all_layers>>
  /\ UNCHANGED loadVars
  /\ UNCHANGED extractVars
  /\ UNCHANGED transformVars

\* ------------------------------------------------------- specifications
InitRun ==
  /\ error = "none"
  /\ li = 0
  /\ store = NoStore
  /\ features = <<>>
  /\ offset = 0
  /\ data = NoData
  /\ requests = <<>>
  /\ responses = <<>>
  /\ faithful = TRUE
  /\ pageCrs = "unset"
  /\ gdf_raw = NoFrame
  /\ all_layers = <<>>
  /\ wi = 0
  /\ wstep = "geojson"
  /\ geojson = NoFiles
  /\ gpkg = NoFiles
  /\ tout = NoFrame
  /\ tout2 = NoFrame

\* A full run of main.
Init ==
  /\ pc = "Idle"
  /\ InitRun
  /\ tin = NoInput

Next ==
  \/ MainStart
  \/ FetchFails
  \/ FetchBatch
  \/ FetchEmpty
  \/ TransformLayer
  \/ MergeLayers
  \/ WriteGeoJSON
  \/ WriteGPKG
  \/ WriteFails

Spec == Init /\ [][Next]_vars


\* One call of extract_layer on its own, for any configured layer and any
\* content of the layer at the service.
ExtractInit ==
  /\ pc = "Extracting"
  /\ error = "none"
  /\ li \in 1..NumLayers
  /\ store \in LayerStores(EDUCATION_LAYERS[li].layer_id, MaxRecords, GEOM_KINDS, FIELD_SETS)
  /\ features = <<>>
  /\ offset = 0
  /\ data = NoData
  /\ requests = <<>>
  /\ responses = <<>>
  /\ faithful = TRUE
  /\ pageCrs = "unset"
  /\ gdf_raw = NoFrame
  /\ all_layers = <<>>
  /\ wi = 0
  /\ wstep = "geojson"
  /\ geojson = NoFiles
  /\ gpkg = NoFiles
  /\ tin = NoInput
  /\ tout = NoFrame
  /\ tout2 = NoFrame

ExtractNext ==
  \/ FetchFails
  \/ FetchBatch
  \/ FetchEmpty

ExtractSpec == ExtractInit /\ [][ExtractNext]_vars

\* transform on its own: applied to a frame, then to its own result.
Frames(maxRows, fieldSets) ==
  UNION { { [rows |-> [n \in 1..k |->
                         [id |-> <<0, n>>, geometry |-> GeomOf(ks[n], n),
                          values |-> [j \in 1..Len(fields) |-> "v"]]],
             columns |-> fields,
             crs |-> crs] :
            ks \in [1..k -> GEOM_KINDS],
            fields \in fieldSets,
            crs \in CRS_VALUES } :
          k \in 0..maxRows }

TransformInputs ==
  { [gdf |-> f, layer_name |-> EDUCATION_LAYERS[i].name] :
      f \in Frames(MaxRows, TRANSFORM_FIELD_SETS), i \in 1..NumLayers }

TransformInit ==
  /\ pc = "TransformCall"
  /\ InitRun
  /\ tin \in TransformInputs

ApplyTransform ==
  /\ pc = "TransformCall"
  /\ tout' = transform(tin.gdf, tin.layer_name)
  /\ pc' = "TransformAgain"
  /\ UNCHANGED <<error, li, store, gdf_raw, all_layers, tin, tout2>>
  /\ UNCHANGED extractVars
  /\ UNCHANGED loadVars

ApplyTransformAgain ==
  /\ pc = "TransformAgain"
  /\ tout2' = transform(tout, tin.layer_name)
  /\ pc' = "TransformDone"
  /\ UNCHANGED <<error, li, store, gdf_raw, all_layers, tin, tout>>
  /\ UNCHANGED extractVars
  /\ UNCHANGED loadVars

TransformNext ==
  \/ ApplyTransform
  \/ ApplyTransformAgain

TransformSpec == TransformInit /\ [][TransformNext]_vars


\* ================================================================ claims
Last(s) == s[Len(s)]
RowKeys(rows) == [i \in 1..Len(rows) |-> <<rows[i].id, rows[i].geometry.kind>>]
FeatureKeys(feats) == [i \in 1..Len(feats) |-> <<feats[i].id, feats[i].geometry.kind>>]
CeilDiv(n, p) == (n + p - 1) \div p
PageOffsets(n) == [k \in 1..(CeilDiv(n, PAGE_SIZE) + 1) |-> (k - 1) * PAGE_SIZE]
ConfigNames(k) == [i \in 1..k |-> EDUCATION_LAYERS[i].name]
LayerNames == [i \in 1..Len(all_layers) |-> all_layers[i].name]
OutputNames == Append(ConfigNames(NumLayers), "education_all")
NamesUpTo(k) == {OutputNames[j] : j \in 1..k}
\* The loop of extract_layer was left by its break.
LoopEnded == pc = "Transforming" \/ (pc = "Failed" /\ error = "EmptyLayerError")

\* C1 as stated: against a service that serves its N records faithfully in
\* pages of PAGE_SIZE, extract_layer returns the N records in service order
\* after requesting offsets 0, P, 2P, ... in ceil(N/P)+1 fetches, the last
\* one returning the empty page.
C1_AsStated ==
  (LoopEnded /\ faithful) =>
    /\ pc = "Transforming"
    /\ RowKeys(gdf_raw.rows) = FeatureKeys(store.features)
    /\ requests = PageOffsets(Len(store.features))
    /\ Last(responses) = 0

\* C1 amended: the k-th request of a layer is always at offset (k-1)*P;
\* against a faithful service the loop ends after exactly ceil(N/P)+1
\* fetches, the last one returning the empty page; for N >= 1 the call
\* returns exactly the N records in service order, and for N = 0 it raises
\* the empty-layer error after its single fetch.
C1_Pagination ==
  /\ \A k \in 1..Len(requests) : requests[k] = (k - 1) * PAGE_SIZE
  /\ (LoopEnded /\ faithful) =>
       /\ requests = PageOffsets(Len(store.features))
       /\ Len(requests) = CeilDiv(Len(store.features), PAGE_SIZE) + 1
       /\ Last(responses) = 0
       /\ Len(store.features) >= 1 =>
            /\ pc = "Transforming"
            /\ RowKeys(gdf_raw.rows) = FeatureKeys(store.features)
       /\ Len(store.features) = 0 =>
            /\ pc = "Failed"
            /\ error = "EmptyLayerError"
            /\ requests = <<0>>

C1_Witness ==
  /\ pc = "Transforming"
  /\ faithful
  /\ Len(store.features) > PAGE_SIZE
  /\ Len(store.features) % PAGE_SIZE # 0
  /\ Len(gdf_raw.rows) = Len(store.features)

\* C2: a layer whose first page is empty makes the run fail with the
\* empty-layer error, at whatever position the layer is, and no standalone
\* file and no container layer has been written when the run has failed so.
C2_EmptyLayerFails ==
  /\ responses = <<0>> => (pc = "Failed" /\ error = "EmptyLayerError")
  /\ error = "EmptyLayerError" =>
       /\ pc = "Failed"
       /\ responses = <<0>>
       /\ DOMAIN geojson = {}
       /\ DOMAIN gpkg = {}

C2_Witness ==
  /\ error = "EmptyLayerError"
  /\ li = NumLayers
  /\ Len(all_layers) = NumLayers - 1
  /\ all_layers[1].gdf.rows # <<>>

\* C3: a page fetch with a non-success response ends the run at once: the
\* failed page is the last request and was requested once, no later layer
\* is extracted, nothing is merged or written, and no step is ever taken
\* from the Failed state (so Done is never reached).
C3_Failed ==
  /\ (responses # <<>> /\ Last(responses) = -1) <=> (error = "TransportError")
  /\ error = "TransportError" =>
       /\ pc = "Failed"
       /\ Last(requests) = offset
       /\ Cardinality({k \in 1..Len(requests) : requests[k] = offset}) = 1
       /\ Cardinality({k \in 1..Len(responses) : responses[k] = -1}) = 1
       /\ Len(all_layers) = li - 1
       /\ "education_all" \notin DictNames(all_layers)
       /\ DOMAIN geojson = {}
       /\ DOMAIN gpkg = {}

C3_TransportErrorFatal == []C3_Failed /\ [][pc # "Failed"]_vars

C3_Witness ==
  /\ error = "TransportError"
  /\ li = 2
  /\ Len(requests) = 2
  /\ features # <<>>

\* C4: the stages are entered in the order Extract(1), Transform(1), ...,
\* Extract(k), Transform(k), Merging, Writing, Done: a layer is extracted
\* only when exactly the layers before it have been transformed, merging
\* starts with all of them, writing with the combined collection added, and
\* Done holds only with every collection written; every step stays in its
\* stage or moves to the next one (or to Failed).
C4_Stages ==
  /\ pc \in {"Idle", "Extracting", "Transforming", "Merging", "Writing", "Done", "Failed"}
  /\ pc = "Idle" => (li = 0 /\ all_layers = <<>>)
  /\ pc \in {"Extracting", "Transforming"} =>
       (li \in 1..NumLayers /\ LayerNames = ConfigNames(li - 1))
  /\ pc = "Transforming" =>
       /\ gdf_raw.rows # <<>>
       /\ \A i \in 1..Len(gdf_raw.rows) :
            gdf_raw.rows[i].id[1] = EDUCATION_LAYERS[li].layer_id
  /\ pc = "Merging" => (li = NumLayers /\ LayerNames = ConfigNames(NumLayers))
  /\ pc \in {"Writing", "Done"} => LayerNames = OutputNames
  /\ pc \in {"Idle", "Extracting", "Transforming", "Merging"} =>
       (DOMAIN geojson = {} /\ DOMAIN gpkg = {})
  /\ pc = "Writing" =>
       /\ wi \in 1..(NumLayers + 1)
       /\ DOMAIN gpkg = NamesUpTo(wi - 1)
       /\ DOMAIN geojson = NamesUpTo(IF wstep = "gpkg" THEN wi ELSE wi - 1)
  /\ pc = "Done" =>
       /\ DOMAIN gpkg = NamesUpTo(NumLayers + 1)
       /\ DOMAIN geojson = NamesUpTo(NumLayers + 1)

C4_Step ==
  \/ pc = "Idle" /\ pc' = "Extracting" /\ li' = 1
  \/ pc = "Extracting" /\ pc' \in {"Extracting", "Transforming"} /\ li' = li
  \/ pc = "Transforming" /\ li < NumLayers /\ pc' = "Extracting" /\ li' = li + 1
  \/ pc = "Transforming" /\ li = NumLayers /\ pc' = "Merging" /\ li' = li
  \/ pc = "Merging" /\ pc' = "Writing" /\ wi' = 1 /\ wstep' = "geojson"
  \/ pc = "Writing" /\ pc' = "Writing" /\ wstep = "geojson" /\ wstep' = "gpkg" /\ wi' = wi
  \/ pc = "Writing" /\ pc' = "Writing" /\ wstep = "gpkg" /\ wstep' = "geojson" /\ wi' = wi + 1
  \/ pc = "Writing" /\ pc' = "Done" /\ wstep = "gpkg" /\ wi = NumLayers + 1
  \/ pc \in {"Extracting", "Writing"} /\ pc' = "Failed"

C4_StageOrder == []C4_Stages /\ [][C4_Step]_vars

C4_Witness ==
  /\ pc = "Done"
  /\ error = "none"
  /\ li = NumLayers

RECURSIVE KeysOfFirst(_, _)
\* Keys of the rows of the first k frames of a dict, frame after frame.
KeysOfFirst(d, k) ==
  IF k = 0 THEN <<>> ELSE KeysOfFirst(d, k - 1) \o RowKeys(d[k].gdf.rows)

RECURSIVE RowsOfFirst(_, _)
RowsOfFirst(d, k) ==
  IF k = 0 THEN 0 ELSE RowsOfFirst(d, k - 1) + Len(d[k].gdf.rows)

\* C5: the combined collection has as many records as the per-layer
\* normalized collections together, and its records are theirs, layer after
\* layer in iteration order and in each layer's own order.
C5_MergeKeepsRecords ==
  "education_all" \in DictNames(all_layers) =>
    LET combined == all_layers[NumLayers + 1].gdf
    IN /\ all_layers[NumLayers + 1].name = "education_all"
       /\ Len(combined.rows) = RowsOfFirst(all_layers, NumLayers)
       /\ RowKeys(combined.rows) = KeysOfFirst(all_layers, NumLayers)
       /\ combined.crs = CRS_OUT

C5_Witness ==
  /\ pc = "Writing"
  /\ wi = 1
  /\ \A i \in 1..NumLayers : all_layers[i].gdf.rows # <<>>
  /\ \E i \in 1..NumLayers : Len(all_layers[i].gdf.rows) >= 2

\* C6 as stated: the result of transform holds exactly the records of its
\* argument whose geometry is neither null nor empty, in their order, so
\* every record of the result has a non-null, non-empty geometry.
C6_AsStated ==
  pc \in {"TransformAgain", "TransformDone"} =>
    /\ \A i \in 1..Len(tout.rows) : tout.rows[i].geometry.kind \notin {"null", "empty"}
    /\ [i \in 1..Len(tout.rows) |-> tout.rows[i].id] =
         [i \in 1..Len(SelectRows(tin.gdf.rows,
                {j \in 1..Len(tin.gdf.rows) : tin.gdf.rows[j].geometry.kind = "point"})) |->
            SelectRows(tin.gdf.rows,
                {j \in 1..Len(tin.gdf.rows) : tin.gdf.rows[j].geometry.kind = "point"})[i].id]

\* C7: at Done there are k+1 standalone files, one per configured layer and
\* one for the combined set, and the container holds k+1 layers of the same
\* names, each with the content of its standalone file; a step never
\* removes or changes a layer the container already holds.
C7_Outputs ==
  pc = "Done" =>
    /\ DOMAIN geojson = DictNames(all_layers)
    /\ DOMAIN gpkg = DictNames(all_layers)
    /\ Cardinality(DOMAIN geojson) = NumLayers + 1
    /\ Cardinality(DOMAIN gpkg) = NumLayers + 1
    /\ \A i \in 1..Len(all_layers) :
         /\ geojson[all_layers[i].name] = all_layers[i].gdf
         /\ gpkg[all_layers[i].name].rows = geojson[all_layers[i].name].rows

C7_KeepsLayers ==
  \A n \in DOMAIN gpkg : n \in DOMAIN gpkg' /\ gpkg'[n] = gpkg[n]

C7_OutputSet == []C7_Outputs /\ [][C7_KeepsLayers]_vars

C7_Witness ==
  /\ pc = "Done"
  /\ Cardinality(DOMAIN gpkg) = NumLayers + 1
  /\ gpkg["schools"].rows # <<>>
  /\ gpkg["education_all"].rows # gpkg["schools"].rows

\* C8: transform applied to its own result, with the same layer name, gives
\* that result again: rows, geometries, columns, values and crs.
C8_TransformIdempotent ==
  pc = "TransformDone" => tout2 = tout

C8_Witness ==
  /\ pc = "TransformDone"
  /\ tin.gdf.crs = "EPSG:3857"
  /\ Contains(tin.gdf.columns, KeyFacType)
  /\ \E i \in 1..Len(tin.gdf.rows) : tin.gdf.rows[i].geometry.kind = "point"
  /\ \E i \in 1..Len(tin.gdf.rows) : tin.gdf.rows[i].geometry.kind = "null"
  /\ tout # tin.gdf

\* C9 as stated: the frame returned by extract_layer carries the crs reported
\* with the last page that had records, not the one of the empty response
\* that ended the loop.
C9_AsStated ==
  pc = "Transforming" => gdf_raw.crs = pageCrs

\* C10: the loop of extract_layer is left without a transport error exactly
\* when the last response had no records; after a response with records,
\* however few, the loop is still running with the offset one page further;
\* an empty response after at least one page with records makes the call
\* return the records accumulated so far, without error, even when the
\* service holds more.
C10_EmptyPageEndsLoop ==
  /\ LoopEnded <=> (responses # <<>> /\ Last(responses) = 0)
  /\ (responses # <<>> /\ Last(responses) > 0) =>
       /\ pc = "Extracting"
       /\ offset = Last(requests) + PAGE_SIZE
       /\ ENABLED FetchEmpty
  /\ (Len(responses) >= 2 /\ Last(responses) = 0) =>
       /\ pc = "Transforming"
       /\ error = "none"
       /\ RowKeys(gdf_raw.rows) = FeatureKeys(features)
       /\ features = SubSeq(store.features, 1, Len(features))

C10_Witness ==
  /\ pc = "Transforming"
  /\ ~faithful
  /\ Len(responses) >= 2
  /\ Len(features) < Len(store.features)

====
